---- MODULE Spec2Model ----
(***************************************************************************)
(* The search-and-refine orchestration of the MarketMaker page: the Home   *)
(* component (request coordinator, debounced sell recompute with its       *)
(* generation counter) together with the lifecycle of ProgressLoader and   *)
(* the callers of the page's handlers (SearchHeader, ImageUpload,          *)
(* SmartFieldsForm).  One action per handler or asynchronous continuation. *)
(* JavaScript is single threaded: every action runs one handler up to its  *)
(* next await, followed by the commit effects React runs after the render. *)
(***************************************************************************)
EXTENDS Integers, Sequences, FiniteSets, TLC

\* ------------------------------------------------------------------ bounds
\* user actions (submits, clarifications, edits, uploads, tab and home clicks)
\* made in one behaviour, counted from its first state
MaxClicks == 3

\* seconds of performance.now() after which the clock is no longer advanced
MaxNow == 4

\* ------------------------------------------------------------ input domains
BaseQueries == {<<"iPhone">>, <<"MacBook">>}
Modes == {"buy", "sell"}
FieldLists == {<<>>, <<"storage">>}

Options(key) == IF key = "storage" THEN {"128GB", "256GB"} ELSE {"black"}

\* --------------------------------------------------- JavaScript objects
\* A Record<string,string> keeps its keys in insertion order: a sequence of
\* [k, v] entries with distinct keys.
EmptyMap == <<>>

MapKeys(m) == {m[i].k : i \in DOMAIN m}

Has(m, key) == key \in MapKeys(m)

Get(m, key) == m[CHOOSE i \in DOMAIN m : m[i].k = key].v

Put(m, key, val) ==
  IF Has(m, key)
  THEN [i \in DOMAIN m |-> IF m[i].k = key THEN [k |-> key, v |-> val] ELSE m[i]]
  ELSE Append(m, [k |-> key, v |-> val])

RECURSIVE Spread(_, _)
\* { ...a, ...b }
Spread(a, b) ==
  IF b = <<>> THEN a ELSE Spread(Put(a, Head(b).k, Head(b).v), Tail(b))

\* Object.values(m)
Values(m) == [i \in DOMAIN m |-> m[i].v]

\* b's entries are all entries of a
Carries(a, b) == \A i \in DOMAIN b : Has(a, b[i].k) /\ Get(a, b[i].k) = b[i].v

RECURSIVE Selections(_)
\* What ProgressLoader.handleContinue can pass on for the fields shown: the
\* non-empty choices, in field order.
Selections(fields) ==
  IF fields = <<>> THEN {<<>>}
  ELSE LET rest == Selections(Tail(fields))
       IN  rest \cup { <<[k |-> Head(fields), v |-> o]>> \o r :
                         r \in rest, o \in Options(Head(fields)) }

\* ----------------------------------------------------------- payloads
\* null / undefined
NoQuery == <<>>

\* A response as the page stores it: what was asked (query, condition, details),
\* and who asked: the submission `sid`, the recompute generation `gen`, and the
\* value `at` of refreshGeneration when a recompute result was stored.
Result(kind, query, cond, details, sid, gen, at) ==
  [kind |-> kind, query |-> query, condition |-> cond, details |-> details,
   sid |-> sid, gen |-> gen, at |-> at]

NoData == Result("none", NoQuery, 0, EmptyMap, 0, 0, 0)

Failure(msg, sid) == [kind |-> "error", msg |-> msg, sid |-> sid]

NoError == [kind |-> "none", msg |-> "", sid |-> 0]

\* ImageUpload's error: null, the message of a failed uploadImage, or the
\* message for a file that is not an image
NoMessage == ""
UploadFailure == "ANALYSIS FAILED"
InvalidFormat == "INVALID FILE FORMAT"

Condition(rating, product, attrs) ==
  [rating |-> rating, detected_product |-> product, detected_attributes |-> attrs]

NoCondition == Condition(0, NoQuery, EmptyMap)

\* what uploadImage can answer
ConditionResults ==
  { Condition(7, NoQuery, EmptyMap),
    Condition(8, <<"MacBook">>, <<[k |-> "color", v |-> "black"]>>) }

\* b occurs in a as a run of consecutive words (String.prototype.includes)
Includes(a, b) ==
  \E i \in 0..(Len(a) - Len(b)) : \A j \in 1..Len(b) : a[i + j] = b[j]

NoRefinement == [needs_refinement |-> FALSE, fields |-> <<>>]

\* what refineQuery can answer
RefineResponses == { [needs_refinement |-> n, fields |-> f] : n \in BOOLEAN, f \in FieldLists }

VARIABLES
  \* Home: useState
  mode, isLoading, showResults, buyData, sellData, error, productFields,
  fieldsLoading, sellCondition, sellDetails, detectedAttrs, priceRefreshing,
  searchBarQuery, imagePreview, conditionResult, refinementFields,
  refinementSelections,
  \* Home: useRef
  pendingQueryRef, keepImageRef, currentSellQuery,
  refreshTimer, refreshGeneration, abortControllerRef,
  \* the event loop: pending timeouts and unsettled promises
  timers, calls, searches, uploads,
  \* ImageUpload useState: result
  imageResult,
  \* ImageUpload useState error: the message shown inside the widget
  imageError,
  \* ProgressLoader refs
  wasLoadingRef, completionTimerRef,
  \* ProgressLoader useState, rafRef (a frame callback is scheduled) with the
  \* mode its getSimulatedProgress closed over, startTimeRef, performance.now()
  progress, visible, completed, rafRef, tickMode, startTimeRef, now,
  \* the frame callbacks requested with requestAnimationFrame and neither run
  \* nor cancelled
  scheduledFrames,
  \* SmartFieldsForm useState
  formValues,
  \* history: user actions and submissions so far, the submission in force,
  \* the identity of the next continuation, the refinement check whose fields
  \* are shown, what the last submit kept and the mode it was made in,
  \* whether the page is mounted,
  \* recompute calls issued, generations
  \* whose timeout was cleared before it fired, schedule() calls that went
  \* past the base-query guard, generations whose completion found a newer one
  clicks, submits, mounted, activeSid, nextTid, askedBy, kept, dispatched, coalesced,
  scheduled, discarded

homeVars == <<mode, isLoading, showResults, buyData, sellData, error, productFields,
              fieldsLoading, sellCondition, sellDetails, detectedAttrs, priceRefreshing,
              searchBarQuery, imagePreview, conditionResult, refinementFields,
              refinementSelections>>

refVars == <<pendingQueryRef, keepImageRef, currentSellQuery>>

schedVars == <<refreshTimer, refreshGeneration, abortControllerRef, timers, calls>>

loaderVars == <<wasLoadingRef, completionTimerRef, progress, visible, completed,
               rafRef, tickMode, startTimeRef, now, scheduledFrames>>

asyncVars == <<searches, uploads>>

histVars == <<clicks, submits, mounted, activeSid, nextTid, askedBy, kept, dispatched,
             coalesced, scheduled, discarded>>

vars == <<homeVars, refVars, schedVars, loaderVars, asyncVars, imageResult, imageError,
          formValues,
          histVars>>

\* The page as constructed (useState / useRef initial values), on either tab:
\* the SELL tab of a page on which nothing was searched differs from the
\* constructed page in `mode` only.
FreshPage ==
  /\ mode \in Modes
  /\ isLoading = FALSE
  /\ showResults = FALSE
  /\ buyData = NoData
  /\ sellData = NoData
  /\ error = NoError
  /\ productFields = <<>>
  /\ fieldsLoading = FALSE
  /\ sellCondition = 0
  /\ sellDetails = EmptyMap
  /\ detectedAttrs = EmptyMap
  /\ priceRefreshing = FALSE
  /\ searchBarQuery = NoQuery
  /\ imagePreview = FALSE
  /\ conditionResult = NoCondition
  /\ refinementFields = <<>>
  /\ refinementSelections = EmptyMap
  /\ pendingQueryRef = NoQuery
  /\ keepImageRef = FALSE
  /\ currentSellQuery = NoQuery
  /\ refreshTimer = 0
  /\ refreshGeneration = 0
  /\ abortControllerRef = 0
  /\ timers = {}
  /\ calls = {}
  /\ searches = {}
  /\ uploads = {}
  /\ wasLoadingRef = FALSE
  /\ completionTimerRef = FALSE
  /\ progress = 0
  /\ visible = FALSE
  /\ completed = FALSE
  /\ rafRef = FALSE
  /\ scheduledFrames = 0
  /\ tickMode = "none"
  /\ startTimeRef = 0
  /\ now = 0
  /\ formValues = EmptyMap
  /\ submits = 0
  /\ mounted = TRUE
  /\ activeSid = 0
  /\ nextTid = 1
  /\ clicks = 0
  /\ imageResult = NoCondition
  /\ imageError = NoMessage
  /\ askedBy = 0
  /\ kept = [condition |-> 0, details |-> EmptyMap, mode |-> "none"]
  /\ dispatched = 0
  /\ coalesced = {}
  /\ scheduled = 0
  /\ discarded = {}

\* The SELL page after submit("iPhone") completed without clarification and a
\* photo was analysed: the listing is shown with its smart field, the detected
\* condition and product, and the price recomputed for that condition.
ListedPage ==
  /\ mode = "sell"
  /\ isLoading = FALSE
  /\ showResults = TRUE
  /\ buyData = NoData
  /\ sellData = Result("recompute", <<"iPhone">>, 8, EmptyMap, 1, 1, 1)
  /\ error = NoError
  /\ productFields = <<"storage">>
  /\ fieldsLoading = FALSE
  /\ sellCondition = 8
  /\ sellDetails = EmptyMap
  /\ detectedAttrs = <<[k |-> "color", v |-> "black"]>>
  /\ priceRefreshing = FALSE
  /\ searchBarQuery = NoQuery
  /\ imagePreview = TRUE
  /\ conditionResult = Condition(8, <<"MacBook">>, <<[k |-> "color", v |-> "black"]>>)
  /\ refinementFields = <<>>
  /\ refinementSelections = EmptyMap
  /\ pendingQueryRef = <<"iPhone">>
  /\ keepImageRef = FALSE
  /\ currentSellQuery = <<"iPhone">>
  /\ refreshTimer = 1
  /\ refreshGeneration = 1
  /\ abortControllerRef = 1
  /\ timers = {}
  /\ calls = {}
  /\ searches = {}
  /\ uploads = {}
  /\ wasLoadingRef = FALSE
  /\ completionTimerRef = FALSE
  /\ progress = 0
  /\ visible = FALSE
  /\ completed = FALSE
  /\ rafRef = FALSE
  /\ scheduledFrames = 0
  /\ tickMode = "none"
  /\ startTimeRef = 0
  /\ now = 0
  /\ formValues = EmptyMap
  /\ submits = 1
  /\ mounted = TRUE
  /\ activeSid = 1
  /\ nextTid = 2
  /\ clicks = 0
  /\ imageResult = conditionResult
  /\ imageError = NoMessage
  /\ askedBy = 0
  /\ kept = [condition |-> 0, details |-> EmptyMap, mode |-> "none"]
  /\ dispatched = 1
  /\ coalesced = {}
  /\ scheduled = 1
  /\ discarded = {}

Init == FreshPage \/ ListedPage

\* ------------------------------------------------------- derived predicates
\* ProgressLoader: const isPaused = refinementFields.length > 0 && isLoading
IsPaused == isLoading /\ Len(refinementFields) > 0

\* Home render guard of <SellAdvisorPanel>
PanelVisible == mode = "sell" /\ sellData.kind # "none" /\ showResults /\ ~isLoading

\* `mode === "buy" && buyData && showResults && !isLoading`: the buy result is rendered
BuyVisible == mode = "buy" /\ buyData.kind # "none" /\ showResults /\ ~isLoading

\* --------------------------------------------------------- progress curve
\* progress is kept in thousandths of a percent, elapsed time in seconds
Percent(n) == n * 1000

Min(a, b) == IF a < b THEN a ELSE b

\* Math.exp(-speed) for one second, in ten-thousandths: speed is 0.06 for buy
\* and 0.08 for sell
DecayPerSecond(m) == IF m = "buy" THEN 9418 ELSE 9231

RECURSIVE Decay(_, _)
\* Math.exp(-speed * t) in ten-thousandths, t in whole seconds
Decay(m, t) ==
  IF t = 0 THEN 10000 ELSE (Decay(m, t - 1) * DecayPerSecond(m)) \div 10000

\* getSimulatedProgress(elapsed) of a render with the given mode and isPaused
GetSimulatedProgress(m, paused, elapsed) ==
  LET maxProgress == IF paused THEN Percent(20) ELSE Percent(92)
  IN  IF elapsed < 3
      THEN Min(IF paused THEN Percent(20) ELSE Percent(25), (elapsed * Percent(25)) \div 3)
      ELSE LET t == elapsed - 3
               base == Percent(25)
               remaining == maxProgress - base
               eased == (remaining * (10000 - Decay(m, t))) \div 10000
           IN  Min(maxProgress, base + eased)

\* ------------------------------------------------------------ commit effects
\* `if (progress === 0 || completed)`: the effect takes the run for a fresh start
StartsFresh == progress = 0 \/ completed

\* if (rafRef.current) cancelAnimationFrame(rafRef.current): what is left of n
\* scheduled frame callbacks (faulty variant: the callback is left scheduled)
LeaveScheduled(n) == n

CancelAnimationFrame(n) == IF rafRef THEN n - 1 ELSE n

\* ProgressLoader's effect on [isLoading, isPaused]: the cleanup of the
\* previous run (cancelAnimationFrame), then start / pause / resume / finalize.
LoaderEffect(newLoading, newPaused) ==
  IF newLoading = isLoading /\ newPaused = IsPaused
  THEN UNCHANGED loaderVars
  ELSE /\ now' = now
       /\ IF newLoading
          THEN /\ wasLoadingRef' = TRUE
               /\ completionTimerRef' = FALSE
               /\ IF StartsFresh
                  THEN /\ visible' = TRUE
                       /\ completed' = FALSE
                       /\ progress' = 0
                       /\ startTimeRef' = now
                  ELSE UNCHANGED <<visible, completed, progress, startTimeRef>>
               /\ rafRef' = ~newPaused
               /\ scheduledFrames' = IF newPaused
                                     THEN CancelAnimationFrame(scheduledFrames)
                                     ELSE CancelAnimationFrame(scheduledFrames) + 1
               /\ tickMode' = IF newPaused THEN "none" ELSE mode'
          ELSE /\ rafRef' = FALSE
               /\ scheduledFrames' = CancelAnimationFrame(scheduledFrames)
               /\ tickMode' = "none"
               /\ IF wasLoadingRef
                  THEN /\ wasLoadingRef' = FALSE
                       /\ completionTimerRef' = TRUE
                       /\ progress' = Percent(100)
                       /\ completed' = TRUE
                       /\ UNCHANGED <<visible, startTimeRef>>
                  ELSE UNCHANGED <<wasLoadingRef, completionTimerRef, progress,
                                   visible, completed, startTimeRef>>

\* SmartFieldsForm's local values: lost when the panel is not rendered, and
\* cleared by the effect on [fields] when the field list is replaced.
FormEffect(next, fieldsReplaced) ==
  formValues' = IF PanelVisible' /\ ~fieldsReplaced THEN next ELSE EmptyMap

\* ImageUpload's local result: useState(initialResult ?? null) when the panel
\* mounts, lost when it is not rendered.
ImageEffect(next) ==
  imageResult' = IF ~PanelVisible' THEN NoCondition
                 ELSE IF ~PanelVisible THEN conditionResult'
                 ELSE next

\* ImageUpload's local error: useState(null) when the panel mounts
ErrorEffect(next) ==
  imageError' = IF ~PanelVisible' \/ ~PanelVisible THEN NoMessage ELSE next

PanelEffect(fieldsReplaced) ==
  /\ FormEffect(formValues, fieldsReplaced)
  /\ ImageEffect(imageResult)
  /\ ErrorEffect(imageError)

Commit(fieldsReplaced) ==
  /\ LoaderEffect(isLoading', isLoading' /\ Len(refinementFields') > 0)
  /\ PanelEffect(fieldsReplaced)

\* uploads whose ImageUpload instance has been unmounted
Detach(set) == {[u EXCEPT !.attached = FALSE] : u \in set}

\* ------------------------------------------------------ request coordinator
\* faulty variant: nothing of the previous listing is cleared
KeepAll(keepImage, current, cleared) == current

\* handleSearch, `if (!keepImage) { set...(cleared) }`
ResetUnlessKept(keepImage, current, cleared) == IF keepImage THEN current ELSE cleared

\* faulty variants: the answer is never honoured; the number of fields is not
\* looked at; handleSearch does not return after showing the fields
NeverRefine(refinement) == FALSE

RefineOnFlag(refinement) == refinement.needs_refinement

FallsThrough(refinement) == FALSE

\* handleSearch, `refinement.needs_refinement && refinement.fields.length > 0`
MustRefine(refinement) == refinement.needs_refinement /\ Len(refinement.fields) > 0

\* handleSearch, the `return` that ends the branch of MustRefine
ReturnsBeforeFetch(refinement) == MustRefine(refinement)

\* executeSearch, `keepImage ? sellCondition : undefined`
AdvisorCondition(keepImage, cond) == IF keepImage THEN cond ELSE 0

\* executeSearch, `{ ...(refinementValues || {}), ...(keepImage ? sellDetails : {}) }`
DetailsForAdvisor(keepImage, refinementValues, details) ==
  Spread(refinementValues, IF keepImage THEN details ELSE EmptyMap)

\* faulty variant: empty values are joined too
UnfilteredQuery(baseQuery, values) ==
  IF Len(values) > 0 THEN baseQuery \o Values(values) ELSE baseQuery

\* handleRefinementSubmit, the refined query: base + non-empty values, space-joined
RefinedQuery(baseQuery, values) ==
  LET parts == SelectSeq(Values(values), LAMBDA v : v # "")
  IN  IF Len(parts) > 0 THEN baseQuery \o parts ELSE baseQuery

\* The continuation of one handleSearch / executeSearch call, waiting on its await.
RefineTask(tid, sid, query, keepImage) ==
  [tid |-> tid, sid |-> sid, stage |-> "refine", via |-> "none",
   query |-> query, fetch |-> NoQuery, keepImage |-> keepImage,
   \* the executeSearch this handleSearch closed over: [mode, sellCondition, sellDetails]
   cmode |-> mode, ccond |-> sellCondition, cdetails |-> sellDetails,
   \* handleSearch's `refinement`, once refineQuery has answered
   refinement |-> NoRefinement,
   refinementValues |-> EmptyMap,
   advCond |-> 0, advDetails |-> EmptyMap,
   adv |-> "none", fld |-> "none", fldVal |-> <<>>]

\* faulty variant: the buy fetch records its query as the base query too
WritesBaseQuery(query) == query

\* executeSearch, buy branch (lines 85-87): currentSellQuery is not written
BaseQueryAfterBuyFetch(query) == currentSellQuery

\* executeSearch up to its await (lines 84-112), run as continuation `t`
ExecuteSearch(t, others, query, keepImage, values, m, cond, details, via) ==
  IF m = "buy"
  THEN /\ searches' = others \cup
            {[t EXCEPT !.stage = "buy", !.via = via, !.fetch = query,
                       !.keepImage = keepImage, !.refinementValues = values]}
       /\ currentSellQuery' = BaseQueryAfterBuyFetch(query)
       /\ UNCHANGED fieldsLoading
  ELSE /\ currentSellQuery' = query
       /\ fieldsLoading' = TRUE
       /\ searches' = others \cup
            {[t EXCEPT !.stage = "sell", !.via = via, !.fetch = query,
                       !.keepImage = keepImage, !.refinementValues = values,
                       !.advCond = AdvisorCondition(keepImage, cond),
                       !.advDetails = DetailsForAdvisor(keepImage, values, details),
                       !.adv = "pending", !.fld = "pending"]}

\* handleSearch up to `await refineQuery(query)` (lines 141-167)
HandleSearch(query, keepImage) ==
  /\ clicks < MaxClicks
  /\ clicks' = clicks + 1
  /\ isLoading' = TRUE
  /\ showResults' = FALSE
  /\ error' = NoError
  /\ buyData' = NoData
  /\ sellData' = NoData
  /\ productFields' = <<>>
  /\ refinementFields' = <<>>
  /\ refinementSelections' = EmptyMap
  /\ sellCondition' = ResetUnlessKept(keepImage, sellCondition, 0)
  /\ sellDetails' = ResetUnlessKept(keepImage, sellDetails, EmptyMap)
  /\ detectedAttrs' = ResetUnlessKept(keepImage, detectedAttrs, EmptyMap)
  /\ imagePreview' = ResetUnlessKept(keepImage, imagePreview, FALSE)
  /\ conditionResult' = ResetUnlessKept(keepImage, conditionResult, NoCondition)
  /\ pendingQueryRef' = query
  /\ keepImageRef' = keepImage
  /\ searches' = searches \cup {RefineTask(nextTid, submits + 1, query, keepImage)}
  /\ nextTid' = nextTid + 1
  /\ submits' = submits + 1
  /\ UNCHANGED mounted
  /\ activeSid' = submits + 1
  /\ uploads' = Detach(uploads)
  /\ askedBy' = 0
  /\ kept' = [condition |-> sellCondition', details |-> sellDetails', mode |-> mode]
  /\ UNCHANGED <<mode, fieldsLoading, priceRefreshing, currentSellQuery, schedVars,
                 dispatched, coalesced, scheduled, discarded>>
  /\ Commit(TRUE)

\* SearchHeader.handleSubmit / example buttons: onSearch(query) when not loading
Submit(query) ==
  /\ ~isLoading
  /\ HandleSearch(query, FALSE)
  /\ UNCHANGED searchBarQuery

\* ImageUpload: isProcessing, and the guard of the suggestion button
IsProcessing == \E u \in uploads : u.attached

ShowSuggestion ==
  /\ PanelVisible
  /\ imageResult.detected_product # NoQuery
  /\ ~IsProcessing
  /\ ~Includes(sellData.query, imageResult.detected_product)
  /\ ~Includes(imageResult.detected_product, sellData.query)

\* handleProductSuggestion, from the suggestion button of ImageUpload
HandleProductSuggestion ==
  /\ ShowSuggestion
  /\ imageResult.detected_product # currentSellQuery
  /\ searchBarQuery' = imageResult.detected_product
  /\ HandleSearch(imageResult.detected_product, TRUE)

\* handleSearch after `await refineQuery(query)` answered (lines 169-177)
RefineResponds(t, refinement) ==
  /\ t \in searches /\ t.stage = "refine"
  /\ IF MustRefine(refinement)
     THEN refinementFields' = refinement.fields /\ askedBy' = t.tid
     ELSE UNCHANGED <<refinementFields, askedBy>>
  /\ IF ReturnsBeforeFetch(refinement)
     THEN /\ searches' = searches \ {t}
          /\ UNCHANGED <<currentSellQuery, fieldsLoading>>
     ELSE ExecuteSearch([t EXCEPT !.refinement = refinement], searches \ {t},
                        t.query, t.keepImage, EmptyMap,
                        t.cmode, t.ccond, t.cdetails, "direct")
  /\ UNCHANGED <<mode, isLoading, showResults, buyData, sellData, error, productFields,
                 sellCondition, sellDetails, detectedAttrs, priceRefreshing,
                 searchBarQuery, imagePreview, conditionResult, refinementSelections,
                 pendingQueryRef, keepImageRef, schedVars, uploads,
                 clicks, submits, mounted, activeSid, nextTid, kept, dispatched,
                 coalesced, scheduled, discarded>>
  /\ Commit(FALSE)

\* faulty variant: a settled submission leaves the loading flag on
LoadingLeftOn == isLoading

\* `setIsLoading(false)`: the catch of handleSearch (line 181) and the finally
\* of executeSearch (lines 134-136)
LoadingAfterSettle == FALSE

\* handleSearch, refineQuery threw: the catch of lines 178-182
RefineFails(t) ==
  /\ t \in searches /\ t.stage = "refine"
  /\ searches' = searches \ {t}
  /\ error' = Failure("refineQuery", t.sid)
  /\ showResults' = TRUE
  /\ isLoading' = LoadingAfterSettle
  /\ UNCHANGED <<mode, buyData, sellData, productFields, fieldsLoading, sellCondition,
                 sellDetails, detectedAttrs, priceRefreshing, searchBarQuery,
                 imagePreview, conditionResult, refinementFields, refinementSelections,
                 refVars, schedVars, uploads,
                 clicks, submits, mounted, activeSid, nextTid, askedBy, kept, dispatched,
                 coalesced, scheduled, discarded>>
  /\ Commit(FALSE)

\* handleRefinementSubmit (lines 190-211), from ProgressLoader.handleContinue
HandleRefinementSubmit(values) ==
  /\ IsPaused
  /\ clicks < MaxClicks
  /\ clicks' = clicks + 1
  /\ searchBarQuery' = RefinedQuery(pendingQueryRef, values)
  /\ refinementFields' = <<>>
  /\ askedBy' = 0
  /\ ExecuteSearch(RefineTask(nextTid, submits, pendingQueryRef, keepImageRef),
                   searches, RefinedQuery(pendingQueryRef, values), keepImageRef,
                   values, mode, sellCondition, sellDetails, "clarify")
  /\ nextTid' = nextTid + 1
  /\ UNCHANGED <<mode, isLoading, showResults, buyData, sellData, error, productFields,
                 sellCondition, sellDetails, detectedAttrs, priceRefreshing,
                 imagePreview, conditionResult, refinementSelections,
                 pendingQueryRef, keepImageRef, schedVars, uploads,
                 submits, mounted, activeSid, kept, dispatched, coalesced, scheduled, discarded>>
  /\ Commit(FALSE)

\* executeSearch, buy mode, after `await analyzeProduct(query)` (lines 86-87, 131-136)
AnalyzeSettles(t, ok) ==
  /\ t \in searches /\ t.stage = "buy"
  /\ searches' = searches \ {t}
  /\ IF ok
     THEN /\ buyData' = Result("buy", t.fetch, 0, EmptyMap, t.sid, 0, 0)
          /\ UNCHANGED <<error, showResults>>
     ELSE /\ error' = Failure("analyzeProduct", t.sid)
          /\ showResults' = TRUE
          /\ UNCHANGED buyData
  /\ isLoading' = LoadingAfterSettle
  /\ UNCHANGED <<mode, sellData, productFields, fieldsLoading, sellCondition,
                 sellDetails, detectedAttrs, priceRefreshing, searchBarQuery,
                 imagePreview, conditionResult, refinementFields, refinementSelections,
                 refVars, schedVars, uploads,
                 clicks, submits, mounted, activeSid, nextTid, askedBy, kept, dispatched,
                 coalesced, scheduled, discarded>>
  /\ Commit(FALSE)

\* faulty variant: the fetch succeeds as soon as either call does
EitherSucceeded(adv, fld) == adv = "fulfilled" \/ fld = "fulfilled"

\* faulty variant: the fetch succeeds only if both calls do
BothSucceeded(adv, fld) == adv = "fulfilled" /\ fld = "fulfilled"

\* `advisorResult.status === "fulfilled"` (line 114): fieldsResult has no say
PricingSucceeded(adv, fld) == adv = "fulfilled"

\* executeSearch, sell mode, after Promise.allSettled (lines 114-136)
SellContinuation(t, adv, fld, fldVal) ==
  /\ searches' = searches \ {t}
  /\ IF PricingSucceeded(adv, fld)
     THEN /\ sellData' = Result("primary", t.fetch, t.advCond, t.advDetails, t.sid, 0, 0)
          /\ productFields' = IF fld = "fulfilled" THEN fldVal ELSE productFields
          /\ IF Len(t.refinementValues) > 0
             THEN /\ refinementSelections' = t.refinementValues
                  /\ sellDetails' = Spread(t.refinementValues, sellDetails)
             ELSE UNCHANGED <<refinementSelections, sellDetails>>
          /\ UNCHANGED <<error, showResults>>
     ELSE /\ error' = Failure("sellAdvisor", t.sid)
          /\ showResults' = TRUE
          /\ UNCHANGED <<sellData, productFields, refinementSelections, sellDetails>>
  /\ isLoading' = LoadingAfterSettle

\* the sellAdvisor promise of a primary fetch settles
SellAdvisorSettles(t, ok) ==
  /\ t \in searches /\ t.stage = "sell" /\ t.adv = "pending"
  /\ IF t.fld = "pending"
     THEN /\ searches' = (searches \ {t}) \cup
                 {[t EXCEPT !.adv = IF ok THEN "fulfilled" ELSE "rejected"]}
          /\ UNCHANGED <<sellData, productFields, refinementSelections, sellDetails,
                         error, showResults, isLoading>>
     ELSE SellContinuation(t, IF ok THEN "fulfilled" ELSE "rejected", t.fld, t.fldVal)
  /\ UNCHANGED <<mode, buyData, fieldsLoading, sellCondition, detectedAttrs,
                 priceRefreshing, searchBarQuery, imagePreview, conditionResult,
                 refinementFields, refVars, schedVars, uploads,
                 clicks, submits, mounted, activeSid, nextTid, askedBy, kept, dispatched,
                 coalesced, scheduled, discarded>>
  /\ Commit(ok /\ t.fld = "fulfilled")

\* the getProductFields promise settles: `finally { setFieldsLoading(false) }`
ProductFieldsSettles(t, ok, fields) ==
  /\ t \in searches /\ t.stage = "sell" /\ t.fld = "pending"
  /\ fieldsLoading' = FALSE
  /\ IF t.adv = "pending"
     THEN /\ searches' = (searches \ {t}) \cup
                 {[t EXCEPT !.fld = IF ok THEN "fulfilled" ELSE "rejected",
                            !.fldVal = IF ok THEN fields ELSE <<>>]}
          /\ UNCHANGED <<sellData, productFields, refinementSelections, sellDetails,
                         error, showResults, isLoading>>
     ELSE SellContinuation(t, t.adv, IF ok THEN "fulfilled" ELSE "rejected",
                           IF ok THEN fields ELSE <<>>)
  /\ UNCHANGED <<mode, buyData, sellCondition, detectedAttrs,
                 priceRefreshing, searchBarQuery, imagePreview, conditionResult,
                 refinementFields, refVars, schedVars, uploads,
                 clicks, submits, mounted, activeSid, nextTid, askedBy, kept, dispatched,
                 coalesced, scheduled, discarded>>
  /\ Commit(ok /\ t.adv = "fulfilled")

\* handleModeChange (lines 213-225); the BUY / SELL tabs are never disabled
HandleModeChange(newMode) ==
  /\ clicks < MaxClicks
  /\ clicks' = clicks + 1
  /\ mode' = newMode
  /\ buyData' = NoData
  /\ sellData' = NoData
  /\ error' = NoError
  /\ productFields' = <<>>
  /\ sellCondition' = 0
  /\ sellDetails' = EmptyMap
  /\ detectedAttrs' = EmptyMap
  /\ refinementSelections' = EmptyMap
  /\ imagePreview' = FALSE
  /\ conditionResult' = NoCondition
  /\ uploads' = Detach(uploads)
  /\ UNCHANGED <<isLoading, showResults, fieldsLoading, priceRefreshing, searchBarQuery,
                 refinementFields, refVars, schedVars, searches,
                 submits, mounted, activeSid, nextTid, askedBy, kept, dispatched,
                 coalesced, scheduled, discarded>>
  /\ Commit(TRUE)

\* faulty variant: the loading flag is left as it is
StaysLoading == isLoading

\* handleHomeClick, `setIsLoading(false)`
IdleLoading == FALSE

\* handleHomeClick (lines 228-244); the home button is never disabled
HandleHomeClick ==
  /\ clicks < MaxClicks
  /\ clicks' = clicks + 1
  /\ buyData' = NoData
  /\ sellData' = NoData
  /\ error' = NoError
  /\ searchBarQuery' = NoQuery
  /\ refinementFields' = <<>>
  /\ refinementSelections' = EmptyMap
  /\ productFields' = <<>>
  /\ sellCondition' = 0
  /\ sellDetails' = EmptyMap
  /\ detectedAttrs' = EmptyMap
  /\ imagePreview' = FALSE
  /\ conditionResult' = NoCondition
  /\ showResults' = FALSE
  /\ isLoading' = IdleLoading
  /\ activeSid' = 0
  /\ uploads' = Detach(uploads)
  /\ askedBy' = 0
  /\ UNCHANGED <<mode, fieldsLoading, priceRefreshing, refVars, schedVars, searches,
                 submits, mounted, nextTid, kept, dispatched, coalesced, scheduled, discarded>>
  /\ Commit(TRUE)

\* setTimeout is one-shot: once its callback has run nothing is pending
\* (faulty variant: the callback stays armed, as with setInterval)
TimerStaysArmed == TRUE

TimerAfterFire == FALSE

\* ProgressLoader's 700 ms completion timer: onComplete = () => setShowResults(true)
CompletionTimerFires ==
  /\ completionTimerRef
  /\ completionTimerRef' = TimerAfterFire
  /\ visible' = FALSE
  /\ progress' = 0
  /\ completed' = FALSE
  /\ showResults' = TRUE
  /\ UNCHANGED <<mode, isLoading, buyData, sellData, error, productFields,
                 fieldsLoading, sellCondition, sellDetails, detectedAttrs,
                 priceRefreshing, searchBarQuery, imagePreview, conditionResult,
                 refinementFields, refinementSelections, refVars, schedVars,
                 asyncVars, wasLoadingRef, rafRef, tickMode, startTimeRef, now,
                 scheduledFrames,
                 clicks, submits, mounted, activeSid, nextTid, askedBy, kept, dispatched,
                 coalesced, scheduled, discarded>>
  /\ PanelEffect(FALSE)

\* ------------------------------------------- debounced recompute scheduler
\* faulty variant: the previous timeout is left pending
KeepTimeout(id) == timers

\* clearTimeout(id): a fired or unknown id clears nothing
ClearTimeout(id) == {t \in timers : t.gen # id}

\* faulty variant: the previous controller is not aborted
NoAbort(set, id) == set

\* controller.abort() of the controller created by generation `id`
Abort(set, id) == {IF c.gen = id THEN [c EXCEPT !.aborted = TRUE] ELSE c : c \in set}

\* faulty variant: a completion one generation behind is still accepted
PreviousGenerationToo(generation) == generation + 1 >= refreshGeneration

\* faulty variant: every completion is taken for the current one
AnyGeneration(generation) == TRUE

\* `generation !== refreshGeneration.current` negated (lines 267, 270, 274)
IsCurrentGeneration(generation) == generation = refreshGeneration

\* faulty variant: the counter is read but not incremented
SameGeneration == refreshGeneration

\* `const generation = ++refreshGeneration.current`
NextGeneration == refreshGeneration + 1

\* faulty variant: schedule() goes on without a base query
AnyBaseQuery == TRUE

\* `const query = currentSellQuery.current; if (!query) return;` negated
HasBaseQuery == currentSellQuery # NoQuery

\* faulty variant: the indicator is left as it was until the call is issued
RefreshingAsBefore == priceRefreshing

\* `flushSync(() => setPriceRefreshing(true))`: the indicator as schedule() leaves it
RefreshingOnSchedule == TRUE

\* faulty variant: every completion clears the indicator
ClearsAlways(generation) == TRUE

\* faulty variant: no completion clears the indicator
ClearsNever(generation) == FALSE

\* the `finally` clause: only the current generation clears the indicator
ClearsRefreshing(generation) == generation = refreshGeneration

\* the timeouts left pending once refreshSellAdvisor has cleared the previous one
PendingAfterClear == Abort(ClearTimeout(refreshTimer), abortControllerRef)

\* refreshSellAdvisor (lines 250-279) up to and including setTimeout
RefreshSellAdvisor(condition, details) ==
  IF ~HasBaseQuery
  THEN UNCHANGED <<priceRefreshing, schedVars, coalesced, scheduled>>
  ELSE /\ priceRefreshing' = RefreshingOnSchedule
       /\ scheduled' = scheduled + 1
       /\ coalesced' = coalesced \cup {t.gen : t \in timers \ PendingAfterClear}
       /\ calls' = Abort(calls, abortControllerRef)
       /\ refreshGeneration' = NextGeneration
       /\ abortControllerRef' = NextGeneration
       /\ refreshTimer' = NextGeneration
       /\ timers' = PendingAfterClear \cup
            {[gen |-> NextGeneration, query |-> currentSellQuery,
              condition |-> condition, details |-> details,
              sid |-> submits, aborted |-> FALSE]}

\* the 800 ms timeout fires: sellAdvisor(query, condition, details, signal) is issued
RefreshTimerFires(t) ==
  /\ t \in timers
  /\ timers' = timers \ {t}
  /\ calls' = calls \cup {t}
  /\ dispatched' = dispatched + 1
  /\ UNCHANGED <<homeVars, refVars, refreshTimer, refreshGeneration, abortControllerRef,
                 asyncVars, loaderVars, formValues, imageResult, imageError,
                 clicks, submits, mounted, activeSid, nextTid, askedBy, kept,
                 coalesced, scheduled, discarded>>

\* the outcomes a recompute call can have: an aborted fetch rejects with
\* AbortError, unless the transport ignores the signal
Outcomes(c) == IF c.aborted THEN {"ok", "error", "abort"} ELSE {"ok", "error"}

\* faulty variant: a failed recompute is reported like a failed search
RecomputeErrorShown(c, outcome) ==
  IF outcome = "error" THEN Failure("sellAdvisor", c.sid) ELSE error

\* the catch clause (lines 269-273): no setError on any path
ErrorAfterRecompute(c, outcome) == error

\* the timeout callback after `await sellAdvisor(...)` (lines 266-277)
RecomputeSettles(c, outcome) ==
  /\ c \in calls
  /\ outcome \in Outcomes(c)
  /\ calls' = calls \ {c}
  /\ sellData' = IF outcome = "ok" /\ IsCurrentGeneration(c.gen)
                 THEN Result("recompute", c.query, c.condition, c.details, c.sid, c.gen,
                             refreshGeneration)
                 ELSE sellData
  /\ priceRefreshing' = IF ClearsRefreshing(c.gen) THEN FALSE ELSE priceRefreshing
  /\ error' = ErrorAfterRecompute(c, outcome)
  /\ discarded' = IF c.gen = refreshGeneration THEN discarded
                   ELSE discarded \cup {c.gen}
  /\ UNCHANGED <<mode, isLoading, showResults, buyData, productFields,
                 fieldsLoading, sellCondition, sellDetails, detectedAttrs,
                 searchBarQuery, imagePreview, conditionResult, refinementFields,
                 refinementSelections, refVars, refreshTimer, refreshGeneration,
                 abortControllerRef, timers, asyncVars, loaderVars,
                 clicks, submits, mounted, activeSid, nextTid, askedBy, kept, dispatched, coalesced,
                 scheduled>>
  /\ PanelEffect(FALSE)

\* ------------------------------------------------------------- ImageUpload
\* ImageUpload.handleFile up to `await uploadImage(file)`; its onConditionResult
\* is the handleSellCondition of this render, which closed over sellDetails.
\* FileReader.onload (onPreviewChange = setImagePreview), which reads a local
\* file, is taken together with the start.
StartUpload ==
  /\ PanelVisible
  /\ ~IsProcessing
  /\ clicks < MaxClicks
  /\ clicks' = clicks + 1
  /\ uploads' = uploads \cup
       {[id |-> clicks + 1, cdetails |-> sellDetails, attached |-> TRUE]}
  /\ imagePreview' = TRUE
  /\ imageResult' = NoCondition
  /\ imageError' = NoMessage
  /\ UNCHANGED <<mode, isLoading, showResults, buyData, sellData, error, productFields,
                 fieldsLoading, sellCondition, sellDetails, detectedAttrs,
                 priceRefreshing, searchBarQuery, conditionResult, refinementFields,
                 refinementSelections, refVars, schedVars, loaderVars, searches,
                 formValues, submits, mounted, activeSid, nextTid, askedBy, kept, dispatched,
                 coalesced, scheduled, discarded>>

\* uploadImage answered: handleSellCondition(result) (lines 290-305)
HandleSellCondition(u, result) ==
  /\ u \in uploads
  /\ uploads' = uploads \ {u}
  /\ RefreshSellAdvisor(result.rating, u.cdetails)
  /\ sellCondition' = result.rating
  /\ conditionResult' = result
  /\ detectedAttrs' = IF Len(result.detected_attributes) > 0
                      THEN result.detected_attributes ELSE detectedAttrs
  /\ UNCHANGED <<mode, isLoading, showResults, buyData, sellData, error, productFields,
                 fieldsLoading, sellDetails, searchBarQuery, imagePreview,
                 refinementFields, refinementSelections, refVars, loaderVars,
                 searches, clicks, submits, mounted, activeSid, nextTid, askedBy, kept,
                 dispatched, discarded>>
  /\ FormEffect(formValues, FALSE)
  /\ ImageEffect(IF u.attached THEN result ELSE imageResult)
  /\ ErrorEffect(imageError)

\* faulty variant: a failed upload is reported like a failed search
UploadErrorShown == Failure("uploadImage", submits)

\* the catch of handleFile (lines 277-281): setError of ImageUpload only
ErrorAfterUpload == error

\* uploadImage threw: only ImageUpload's own error is set
UploadFails(u) ==
  /\ u \in uploads
  /\ imageError' = IF u.attached THEN UploadFailure ELSE imageError
  /\ uploads' = uploads \ {u}
  /\ error' = ErrorAfterUpload
  /\ UNCHANGED <<mode, isLoading, showResults, buyData, sellData, productFields,
                 fieldsLoading, sellCondition, sellDetails, detectedAttrs,
                 priceRefreshing, searchBarQuery, imagePreview, conditionResult,
                 refinementFields, refinementSelections,
                 refVars, schedVars, loaderVars, searches, imageResult,
                 formValues, clicks, submits, mounted, activeSid, nextTid, askedBy, kept,
                 dispatched, coalesced, scheduled, discarded>>

\* handleFile with a file that is not an image (lines 255-258): the widget's
\* error is set and nothing is started
InvalidFile ==
  /\ PanelVisible
  /\ ~IsProcessing
  /\ clicks < MaxClicks
  /\ clicks' = clicks + 1
  /\ imageError' = InvalidFormat
  /\ UNCHANGED <<homeVars, refVars, schedVars, loaderVars, asyncVars, imageResult,
                 formValues, submits, mounted, activeSid, nextTid, askedBy, kept,
                 dispatched, coalesced, scheduled, discarded>>

\* --------------------------------------------------------- SmartFieldsForm
\* faulty variant: keys are compared as they are written
ExactKey(k) == k

\* k.toLowerCase().trim(), on the keys the remote calls answer with
LowerTrim(k) ==
  CASE k = "Storage " -> "storage"
    [] k = " Color" -> "color"
    [] OTHER -> k

\* the fields the form shows: those not already chosen in the refinement
VisibleFields ==
  LET refinementKeysLower == {LowerTrim(k) : k \in MapKeys(refinementSelections)}
  IN  {f \in {productFields[i] : i \in DOMAIN productFields} :
         LowerTrim(f) \notin refinementKeysLower}

\* SmartFieldsForm.handleChange -> SellAdvisorPanel onChange -> handleFieldsChange
HandleFieldsChange(key, value) ==
  /\ PanelVisible
  /\ clicks < MaxClicks
  /\ clicks' = clicks + 1
  /\ key \in VisibleFields
  /\ LET next == Put(formValues, key, value)
         values == Spread(refinementSelections, next)
     IN  /\ RefreshSellAdvisor(sellCondition, values)
         /\ sellDetails' = values
         /\ formValues' = next
  /\ UNCHANGED <<mode, isLoading, showResults, buyData, sellData, error, productFields,
                 fieldsLoading, sellCondition, detectedAttrs, searchBarQuery,
                 imagePreview, conditionResult, refinementFields,
                 refinementSelections, refVars, loaderVars, asyncVars, imageResult, imageError,
                 submits, mounted, activeSid, nextTid, askedBy, kept, dispatched, discarded>>

\* ------------------------------------------------------------ specification
Next ==
  \/ \E q \in BaseQueries : Submit(q)
  \/ HandleProductSuggestion
  \/ \E t \in searches, r \in RefineResponses : RefineResponds(t, r)
  \/ \E t \in searches : RefineFails(t)
  \/ \E v \in Selections(refinementFields) : HandleRefinementSubmit(v)
  \/ \E t \in searches, ok \in BOOLEAN : AnalyzeSettles(t, ok)
  \/ \E t \in searches, ok \in BOOLEAN : SellAdvisorSettles(t, ok)
  \/ \E t \in searches, ok \in BOOLEAN, f \in FieldLists : ProductFieldsSettles(t, ok, f)
  \/ \E m \in Modes : HandleModeChange(m)
  \/ HandleHomeClick
  \/ CompletionTimerFires
  \/ \E t \in timers : RefreshTimerFires(t)
  \/ \E c \in calls, o \in {"ok", "error", "abort"} : RecomputeSettles(c, o)
  \/ StartUpload
  \/ \E u \in uploads, r \in ConditionResults : HandleSellCondition(u, r)
  \/ \E u \in uploads : UploadFails(u)
  \/ \E k \in {"storage"} : \E v \in Options(k) : HandleFieldsChange(k, v)

Spec == Init /\ [][Next]_vars

\* ------------------------------------------- the scheduler driven directly
\* refreshSellAdvisor called with arguments of the caller's choice, whatever
\* the page shows: the function as its callers (handleSellCondition,
\* handleFieldsChange) may use it, without the rendering conditions that
\* decide when they run.
Schedule(condition, details) ==
  /\ clicks < MaxClicks
  /\ clicks' = clicks + 1
  /\ RefreshSellAdvisor(condition, details)
  /\ UNCHANGED <<mode, isLoading, showResults, buyData, sellData, error, productFields,
                 fieldsLoading, sellCondition, sellDetails, detectedAttrs,
                 searchBarQuery, imagePreview, conditionResult, refinementFields,
                 refinementSelections, refVars, loaderVars, asyncVars, imageResult, imageError,
                 formValues, submits, mounted, activeSid, nextTid, askedBy, kept, dispatched,
                 discarded>>

\* the arguments schedule() is called with
ScheduleConditions == {c.rating : c \in ConditionResults}
ScheduleDetails == {EmptyMap} \cup {Put(EmptyMap, "storage", o) : o \in Options("storage")}

ScheduleNext ==
  \/ \E c \in ScheduleConditions, d \in ScheduleDetails : Schedule(c, d)
  \/ \E t \in timers : RefreshTimerFires(t)
  \/ \E c \in calls, o \in {"ok", "error", "abort"} : RecomputeSettles(c, o)

ScheduleSpec == Init /\ [][ScheduleNext]_vars

\* ------------------------------------------ the scheduler left to run out
\* schedule() called any number of times up to the click bound, between home
\* clicks and mode changes, which leave the scheduler's refs alone. The event
\* loop runs a pending timeout after its 800 ms and delivers the outcome of
\* every call that was issued: both are weakly fair.
RefreshNext ==
  \/ \E c \in ScheduleConditions, d \in ScheduleDetails : Schedule(c, d)
  \/ HandleHomeClick
  \/ \E m \in Modes : HandleModeChange(m)
  \/ \E t \in timers : RefreshTimerFires(t)
  \/ \E c \in calls, o \in {"ok", "error", "abort"} : RecomputeSettles(c, o)

RefreshSpec ==
  /\ Init
  /\ [][RefreshNext]_vars
  /\ WF_vars(\E t \in timers : RefreshTimerFires(t))
  /\ WF_vars(\E c \in calls, o \in {"ok", "error", "abort"} : RecomputeSettles(c, o))

\* --------------------------------------- clarification with several fields
\* Submissions whose refinement check asks for up to two fields, answered
\* through handleRefinementSubmit with any Record<string,string> over those
\* fields: a field may be absent, empty or set to one of its options
\* (ProgressLoader.handleContinue passes on the non-empty ones only, the
\* handler itself filters again).
ClarifyFieldLists == {<<>>, <<"storage">>, <<"storage", "color">>}

ClarifyResponses ==
  { [needs_refinement |-> n, fields |-> f] : n \in BOOLEAN, f \in ClarifyFieldLists }

RECURSIVE SubmittedValues(_)
SubmittedValues(fields) ==
  IF fields = <<>> THEN {<<>>}
  ELSE LET rest == SubmittedValues(Tail(fields))
       IN  rest \cup { <<[k |-> Head(fields), v |-> o]>> \o r :
                         r \in rest, o \in Options(Head(fields)) \cup {""} }

ClarifyNext ==
  \/ \E q \in BaseQueries : Submit(q)
  \/ \E t \in searches, r \in ClarifyResponses : RefineResponds(t, r)
  \/ \E v \in SubmittedValues(refinementFields) : HandleRefinementSubmit(v)
  \/ \E t \in searches, ok \in BOOLEAN : AnalyzeSettles(t, ok)
  \/ \E t \in searches, ok \in BOOLEAN : SellAdvisorSettles(t, ok)
  \/ \E t \in searches, ok \in BOOLEAN, f \in FieldLists : ProductFieldsSettles(t, ok, f)
  \/ CompletionTimerFires

ClarifySpec == FreshPage /\ [][ClarifyNext]_vars

\* ------------------------------------- clarification and the detail form
\* The clarification lifecycle with tab and home clicks, where getProductFields
\* may spell the key of a field differently from the refinement check.
InferredFieldLists == {<<>>, <<"Storage ", "carrier">>, <<"storage", " Color">>}

FormNext ==
  \/ \E q \in BaseQueries : Submit(q)
  \/ \E t \in searches, r \in ClarifyResponses : RefineResponds(t, r)
  \/ \E v \in SubmittedValues(refinementFields) : HandleRefinementSubmit(v)
  \/ \E t \in searches, ok \in BOOLEAN : AnalyzeSettles(t, ok)
  \/ \E t \in searches, ok \in BOOLEAN : SellAdvisorSettles(t, ok)
  \/ \E t \in searches, ok \in BOOLEAN, f \in InferredFieldLists :
        ProductFieldsSettles(t, ok, f)
  \/ \E m \in Modes : HandleModeChange(m)
  \/ HandleHomeClick
  \/ CompletionTimerFires

FormSpec == FreshPage /\ [][FormNext]_vars

\* ------------------------------------------------- lifecycle termination
\* One submission after the other, each taken to its end: a submit is made
\* while a later click is still available for its clarification, every remote
\* call that is awaited eventually settles, the user eventually presses
\* Continue while the clarification form is shown, and the grace timer of the
\* loader eventually fires. The tabs may be clicked at any time; the home
\* button, which abandons a submission, is not pressed.
LifecycleSubmit(query) == clicks + 1 < MaxClicks /\ Submit(query)

CheckSettles == \E t \in searches :
                  \/ RefineFails(t)
                  \/ \E r \in ClarifyResponses : RefineResponds(t, r)

AnalysisSettles == \E t \in searches, ok \in BOOLEAN : AnalyzeSettles(t, ok)

PricingSettles == \E t \in searches, ok \in BOOLEAN : SellAdvisorSettles(t, ok)

InferenceSettles == \E t \in searches, ok \in BOOLEAN, f \in FieldLists :
                      ProductFieldsSettles(t, ok, f)

Continue == \E v \in Selections(refinementFields) : HandleRefinementSubmit(v)

\* the BUY / SELL tabs, clicked while a later click is still available
TabSwitch == clicks + 1 < MaxClicks /\ \E m \in Modes : HandleModeChange(m)

LifecycleNext ==
  \/ \E q \in BaseQueries : LifecycleSubmit(q)
  \/ CheckSettles
  \/ AnalysisSettles
  \/ PricingSettles
  \/ InferenceSettles
  \/ Continue
  \/ TabSwitch
  \/ CompletionTimerFires

LifecycleSpec ==
  /\ FreshPage
  /\ [][LifecycleNext]_vars
  /\ WF_vars(CheckSettles)
  /\ WF_vars(AnalysisSettles)
  /\ WF_vars(PricingSettles)
  /\ WF_vars(InferenceSettles)
  /\ WF_vars(Continue)
  /\ WF_vars(CompletionTimerFires)

\* ------------------------------------------------- the progress simulator
\* the isPaused that tick's getSimulatedProgress closed over: the effect
\* returns before creating tick when isPaused, so it is always false
TickPaused == FALSE

\* tick(now): one animation frame of the loop started by the effect
Frame ==
  /\ scheduledFrames > 0
  /\ rafRef' = TRUE
  /\ progress' = GetSimulatedProgress(tickMode, TickPaused, now - startTimeRef)
  /\ UNCHANGED <<homeVars, refVars, schedVars, asyncVars, imageResult, imageError, formValues,
                 histVars, wasLoadingRef, completionTimerRef, visible, completed,
                 tickMode, startTimeRef, now, scheduledFrames>>

\* a second of performance.now() goes by
TimePasses ==
  /\ now < MaxNow
  /\ now' = now + 1
  /\ UNCHANGED <<homeVars, refVars, schedVars, asyncVars, imageResult, imageError, formValues,
                 histVars, wasLoadingRef, completionTimerRef, progress, visible,
                 completed, rafRef, tickMode, startTimeRef, scheduledFrames>>

\* The search lifecycle with the loader's clock running: submits, their
\* continuations, tab and home clicks, animation frames and the grace timer.
LoaderNext ==
  \/ Submit(<<"iPhone">>)
  \/ \E t \in searches, r \in RefineResponses : RefineResponds(t, r)
  \/ \E t \in searches : RefineFails(t)
  \/ \E v \in Selections(refinementFields) : HandleRefinementSubmit(v)
  \/ \E t \in searches, ok \in BOOLEAN : AnalyzeSettles(t, ok)
  \/ \E t \in searches, ok \in BOOLEAN : SellAdvisorSettles(t, ok)
  \/ \E t \in searches, ok \in BOOLEAN, f \in FieldLists : ProductFieldsSettles(t, ok, f)
  \/ \E m \in Modes : HandleModeChange(m)
  \/ HandleHomeClick
  \/ CompletionTimerFires
  \/ Frame
  \/ TimePasses

LoaderSpec == FreshPage /\ [][LoaderNext]_vars

\* --------------------------------------------------------- photo uploads
\* The sell listing with its photo widget: uploads that succeed, fail or are
\* refused, attribute edits, the recomputes they schedule, and tab and home
\* clicks that take the widget away while an upload is in flight.
UploadNext ==
  \/ StartUpload
  \/ InvalidFile
  \/ \E u \in uploads, r \in ConditionResults : HandleSellCondition(u, r)
  \/ \E u \in uploads : UploadFails(u)
  \/ \E k \in {"storage"} : \E v \in Options(k) : HandleFieldsChange(k, v)
  \/ \E t \in timers : RefreshTimerFires(t)
  \/ \E c \in calls, o \in {"ok", "error", "abort"} : RecomputeSettles(c, o)
  \/ \E m \in Modes : HandleModeChange(m)
  \/ HandleHomeClick

UploadSpec == ListedPage /\ [][UploadNext]_vars

\* ------------------------------------------------------------- teardown
\* The page is unmounted (and ProgressLoader with it): the cleanup of Home
\* (lines 283-288) clears refreshTimer and aborts the current controller, the
\* cleanups of ProgressLoader (StatsPanel.tsx 301-315) cancel the frame
\* callback and clear the grace timer. ImageUpload goes with the page.
Unmount ==
  /\ mounted
  /\ mounted' = FALSE
  /\ timers' = ClearTimeout(refreshTimer)
  /\ calls' = Abort(calls, abortControllerRef)
  /\ completionTimerRef' = FALSE
  /\ scheduledFrames' = CancelAnimationFrame(scheduledFrames)
  /\ rafRef' = FALSE
  /\ tickMode' = "none"
  /\ uploads' = Detach(uploads)
  /\ UNCHANGED <<homeVars, refVars, refreshTimer, refreshGeneration, abortControllerRef,
                 searches, imageResult, imageError, formValues, wasLoadingRef,
                 progress, visible, completed, startTimeRef, now,
                 clicks, submits, activeSid, nextTid, askedBy, kept, dispatched,
                 coalesced, scheduled, discarded>>

\* a recompute call settles after the page is gone: every setState of the
\* timeout callback is a no-op on the unmounted component
RecomputeSettlesUnmounted(c, outcome) ==
  /\ ~mounted
  /\ c \in calls
  /\ outcome \in Outcomes(c)
  /\ calls' = calls \ {c}
  /\ UNCHANGED <<homeVars, refVars, refreshTimer, refreshGeneration, abortControllerRef,
                 timers, searches, uploads, loaderVars, imageResult, imageError,
                 formValues, histVars>>

\* The sell listing and the search lifecycle while the page is mounted, the
\* unmount at any moment, and afterwards whatever the event loop still
\* holds: a debounce timeout, the grace timer and a frame callback run if
\* they are still pending, and recompute calls in flight settle. The
\* continuations of a search are not followed past the unmount, and the clock
\* is advanced once, which is enough for frames to move the progress value.
TeardownNext ==
  \/ /\ mounted
     /\ \/ Submit(<<"MacBook">>)
        \/ \E t \in searches, r \in RefineResponses : RefineResponds(t, r)
        \/ \E t \in searches, ok \in BOOLEAN : AnalyzeSettles(t, ok)
        \/ \E t \in searches, ok \in BOOLEAN : SellAdvisorSettles(t, ok)
        \/ \E t \in searches, ok \in BOOLEAN, f \in FieldLists :
              ProductFieldsSettles(t, ok, f)
        \/ \E v \in Selections(refinementFields) : HandleRefinementSubmit(v)
        \/ \E k \in {"storage"} : \E v \in Options(k) : HandleFieldsChange(k, v)
        \/ \E c \in calls, o \in {"ok", "error", "abort"} : RecomputeSettles(c, o)
  \/ Unmount
  \/ \E t \in timers : RefreshTimerFires(t)
  \/ CompletionTimerFires
  \/ Frame
  \/ (now = 0 /\ TimePasses)
  \/ \E c \in calls, o \in {"ok", "error", "abort"} : RecomputeSettlesUnmounted(c, o)

TeardownSpec == Init /\ [][TeardownNext]_vars

\* ------------------------------------------------------- the search header
\* What can stand in the header's input when the form is submitted: a query
\* is a sequence of words, and " " stands for white space typed around or
\* between them.
TypedQueries ==
  {<<>>, <<" ">>, <<" ", " ">>, <<"iPhone">>, <<" ", "iPhone">>, <<"MacBook", " ">>,
   <<" ", "iPhone", " ">>, <<"MacBook", " ", "Pro">>}

\* the example buttons of the header
Suggestions == {<<"MacBook", "Pro", "M2">>, <<"AirPods", "Pro", "2">>}

RECURSIVE TrimStart(_)
TrimStart(q) == IF q # <<>> /\ Head(q) = " " THEN TrimStart(Tail(q)) ELSE q

RECURSIVE TrimEnd(_)
TrimEnd(q) ==
  IF q # <<>> /\ q[Len(q)] = " " THEN TrimEnd(SubSeq(q, 1, Len(q) - 1)) ELSE q

\* faulty variant: the query is passed on as typed
AsTyped(q) == q

\* String.prototype.trim
Trim(q) == TrimEnd(TrimStart(q))

\* SearchHeader.handleSubmit: `if (query.trim() && !isLoading) onSearch(query.trim())`
HandleSubmit(typed) ==
  /\ Trim(typed) # <<>>
  /\ ~isLoading
  /\ HandleSearch(Trim(typed), FALSE)
  /\ UNCHANGED searchBarQuery

\* an example button, `disabled={isLoading}`: onSearch(s)
ExampleClick(s) ==
  /\ ~isLoading
  /\ HandleSearch(s, FALSE)
  /\ UNCHANGED searchBarQuery

HeaderNext ==
  \/ \E typed \in TypedQueries : HandleSubmit(typed)
  \/ \E s \in Suggestions : ExampleClick(s)
  \/ \E t \in searches, r \in RefineResponses : RefineResponds(t, r)
  \/ \E t \in searches : RefineFails(t)
  \/ \E v \in Selections(refinementFields) : HandleRefinementSubmit(v)
  \/ \E t \in searches, ok \in BOOLEAN : AnalyzeSettles(t, ok)
  \/ \E t \in searches, ok \in BOOLEAN : SellAdvisorSettles(t, ok)
  \/ \E t \in searches, ok \in BOOLEAN, f \in FieldLists : ProductFieldsSettles(t, ok, f)
  \/ HandleHomeClick
  \/ CompletionTimerFires

HeaderSpec == FreshPage /\ [][HeaderNext]_vars

\* ================================================================== claims
\* C1. Generation monotonicity: the result of a recompute call is stored in
\* sellData only if the call's generation equals refreshGeneration when the
\* call completes; a result of an older generation is never stored, whatever
\* the order in which the calls complete.
C1_GenerationMonotonic ==
  sellData.kind = "recompute" => sellData.at = sellData.gen

\* Two recompute calls overlapped: the newer one completed first and was
\* stored, the older one is still to complete.
C1_Witness ==
  /\ sellData.kind = "recompute"
  /\ sellData.gen = refreshGeneration
  /\ \E c \in calls : c.gen < sellData.gen

\* C2. Debounce coalescing: schedule() calls made while a timeout is pending
\* replace it, so at most one timeout is pending, it is the one of the last
\* schedule(), every generation is either still pending, coalesced or
\* dispatched exactly once, and no coalesced generation is ever dispatched: N
\* calls in one quiet period give one remote call, with the arguments of the
\* N-th.
C2_DebounceCoalescing ==
  /\ Cardinality(timers) <= 1
  /\ \A t \in timers : t.gen = refreshGeneration
  /\ dispatched + Cardinality(coalesced) + Cardinality(timers) = refreshGeneration
  /\ \A c \in calls : c.gen \notin coalesced
  /\ \A c, d \in calls : c.gen = d.gen => c = d

\* Three edits in one quiet period on the listed page (generations 2, 3, 4):
\* only the third is dispatched, with the details of the third edit.
C2_Witness ==
  /\ coalesced = {2, 3}
  /\ dispatched = 2
  /\ timers = {}
  /\ \E c \in calls : c.gen = 4 /\ c.details = sellDetails /\ c.condition = sellCondition

\* C3. No old recompute after a new submit: a recompute scheduled while an
\* earlier query was the base query is never stored in sellData once a later
\* submit has started.
C3_NoOldRecomputeAfterSubmit ==
  sellData.kind = "recompute" => sellData.sid = submits

\* C4. Stale responses are discarded: what the page shows (buy result, sell
\* result of a primary fetch, error) was produced by the submission in force,
\* never by one that reset() or a later submit() has superseded.
C4_StaleResponsesDiscarded ==
  /\ buyData.kind # "none" => buyData.sid = activeSid
  /\ sellData.kind = "primary" => sellData.sid = activeSid
  /\ error.kind # "none" => error.sid = activeSid

\* C5. Clarification gating: a primary fetch (analyzeProduct, or sellAdvisor
\* with getProductFields) is issued either by handleRefinementSubmit, from the
\* paused loader, or by a handleSearch whose own refinement check did not report
\* refinement needed with at least one field; and the paused loader (loading,
\* refinement fields shown) goes on loading without fields only by a
\* handleRefinementSubmit that issues the fetch.
C5_ClarificationGating ==
  [][ /\ \A t \in searches' :
           ( /\ t.stage \in {"buy", "sell"}
             /\ ~\E o \in searches : o.tid = t.tid /\ o.stage = t.stage )
           => \/ /\ t.via = "clarify"
                 /\ IsPaused
                 /\ clicks' = clicks + 1
                 /\ \A o \in searches : o.tid # t.tid
              \/ /\ t.via = "direct"
                 /\ \E o \in searches : o.tid = t.tid /\ o.stage = "refine"
                 /\ ~(t.refinement.needs_refinement /\ Len(t.refinement.fields) > 0)
      /\ (IsPaused /\ isLoading' /\ ~IsPaused')
           => /\ clicks' = clicks + 1
              /\ \E t \in searches' :
                   /\ t.via = "clarify"
                   /\ t.stage \in {"buy", "sell"}
                   /\ \A o \in searches : o.tid # t.tid
    ]_vars

\* The loader was paused and the clarification was submitted: the sell
\* fetch in flight was issued by handleRefinementSubmit with the values chosen.
C5_Witness ==
  \E t \in searches :
    /\ t.via = "clarify"
    /\ t.stage = "sell"
    /\ Len(t.refinementValues) > 0
    /\ refinementFields = <<>>
    /\ isLoading

C7_RefineIff ==
  [][ \A t \in searches : \A r \in RefineResponses :
        RefineResponds(t, r) =>
          LET asks == r.needs_refinement /\ Len(r.fields) > 0
              shown == askedBy' = t.tid
          IN  /\ shown <=> asks
              /\ shown => refinementFields' = r.fields
              /\ ~asks <=> \E o \in searches' :
                             /\ o.tid = t.tid
                             /\ o.stage \in {"buy", "sell"}
                             /\ o.via = "direct"
                             /\ o.fetch = t.query
                             /\ o.refinementValues = EmptyMap
    ]_vars

\* An answer with needs_refinement true and no field: the primary fetch is in
\* flight with the query as submitted.
C7_Witness ==
  \E t \in searches :
    /\ t.via = "direct"
    /\ t.refinement.needs_refinement
    /\ t.refinement.fields = <<>>
    /\ t.fetch = t.query
    /\ refinementFields = <<>>

\* C8. submit(newQuery) without keepImage, from any state in which the search
\* bar accepts it, immediately leaves the page with no buy result, no sell
\* result, no error, no product fields, no refinement fields or selections,
\* results hidden, and no condition, details, detected attributes, image
\* preview or condition result.
C8_SubmitClears ==
  [][ \A q \in BaseQueries :
        Submit(q) =>
          /\ buyData' = NoData
          /\ sellData' = NoData
          /\ error' = NoError
          /\ productFields' = <<>>
          /\ refinementFields' = <<>>
          /\ refinementSelections' = EmptyMap
          /\ ~showResults'
          /\ sellCondition' = 0
          /\ sellDetails' = EmptyMap
          /\ detectedAttrs' = EmptyMap
          /\ ~imagePreview'
          /\ conditionResult' = NoCondition
    ]_vars

\* A submit made from a listing with a condition, details, detected
\* attributes and a photo: its refinement check is pending and all is cleared.
C8_Witness ==
  /\ \E t \in searches :
       /\ t.stage = "refine"
       /\ ~t.keepImage
       /\ t.sid = submits
       /\ t.ccond # 0
       /\ Len(t.cdetails) > 0
  /\ sellCondition = 0
  /\ sellDetails = EmptyMap
  /\ detectedAttrs = EmptyMap
  /\ ~imagePreview
  /\ conditionResult = NoCondition
  /\ sellData = NoData
  /\ productFields = <<>>
  /\ ~showResults

\* C9, as stated: the sell pricing call of a submit made with keepImage carries
\* the condition and the details that submit retained.
C9_CarriesRetained ==
  \A t \in searches :
    (t.stage = "sell" /\ t.keepImage /\ t.sid = submits)
    => /\ t.advCond = kept.condition
       /\ Carries(t.advDetails, kept.details)

\* C9, what the code does. submit(newQuery, keepImage = true) leaves condition,
\* details, detected attributes, image preview and condition result as they are
\* and clears the results, the error, the product fields and the refinement state.
\* The sell pricing call issued without clarification carries the condition
\* and details that submit retained; the one issued by handleRefinementSubmit
\* carries the condition and details the page holds when the clarification is
\* submitted, the details laid over the clarification values.
C9_KeepImageFrame ==
  [][ /\ HandleProductSuggestion =>
           /\ UNCHANGED <<sellCondition, sellDetails, detectedAttrs, imagePreview,
                          conditionResult>>
           /\ buyData' = NoData
           /\ sellData' = NoData
           /\ error' = NoError
           /\ productFields' = <<>>
           /\ refinementFields' = <<>>
           /\ refinementSelections' = EmptyMap
           /\ ~showResults'
      /\ \A t \in searches' :
           ( /\ t.stage = "sell"
             /\ t.keepImage
             /\ ~\E o \in searches : o.tid = t.tid /\ o.stage = "sell" )
           => IF t.via = "direct"
              THEN t.sid = submits =>
                     /\ t.advCond = kept.condition
                     /\ t.advDetails = kept.details
              ELSE /\ t.advCond = sellCondition
                   /\ t.advDetails = Spread(t.refinementValues, sellDetails)
    ]_vars

\* C10. reset() (handleHomeClick), in whatever state, leaves the page Idle:
\* not loading, results hidden, no buy or sell result, no error, no product
\* fields, no refinement state, no condition, details, detected attributes,
\* image preview or condition result, the search bar empty; only the mode is
\* kept.
C10_ResetForcesIdle ==
  [][ HandleHomeClick =>
        /\ ~isLoading'
        /\ ~showResults'
        /\ buyData' = NoData
        /\ sellData' = NoData
        /\ error' = NoError
        /\ productFields' = <<>>
        /\ refinementFields' = <<>>
        /\ refinementSelections' = EmptyMap
        /\ sellCondition' = 0
        /\ sellDetails' = EmptyMap
        /\ detectedAttrs' = EmptyMap
        /\ ~imagePreview'
        /\ conditionResult' = NoCondition
        /\ searchBarQuery' = NoQuery
        /\ mode' = mode
    ]_vars

\* The home button was pressed while a primary fetch was in flight: the page
\* is idle, the fetch is still to answer.
C10_Witness ==
  /\ activeSid = 0
  /\ submits > 0
  /\ \E t \in searches : t.stage \in {"buy", "sell"}
  /\ ~isLoading
  /\ ~showResults
  /\ buyData = NoData
  /\ sellData = NoData
  /\ error = NoError
  /\ refinementFields = <<>>

\* C11 (refreshing before dispatch): every schedule() that passes the
\* base-query guard leaves priceRefreshing TRUE when it returns; at that moment
\* the timeout of the new generation is pending and no call of that
\* generation has been issued.
C11_RefreshingBeforeDispatch ==
  [][scheduled' # scheduled =>
       /\ priceRefreshing'
       /\ \E t \in timers' : t.gen = refreshGeneration'
       /\ dispatched' = dispatched
       /\ \A c \in calls' : c.gen # refreshGeneration']_vars

\* schedule() has just returned on a quiet page: indicator on, timeout
\* pending, nothing in flight
C11_Witness ==
  /\ priceRefreshing
  /\ scheduled = 2
  /\ \E t \in timers : t.gen = refreshGeneration
  /\ calls = {}
  /\ dispatched = 1

\* C12 (refreshing spans the burst): priceRefreshing is TRUE in every state in
\* which a debounce timeout is pending or the call of the latest generation is
\* in flight, and in no other state: it is FALSE only when neither is the
\* case, that is before the first schedule() or once the latest call's
\* result or failure has been handled.
C12_RefreshingUntilLatestHandled ==
  priceRefreshing <=>
    (timers # {} \/ \E c \in calls : c.gen = refreshGeneration)

\* in the middle of a burst: an older call still unanswered, the latest one
\* in flight, the indicator on
C12_Witness ==
  /\ priceRefreshing
  /\ timers = {}
  /\ \E c \in calls : c.gen = refreshGeneration
  /\ \E c \in calls : c.gen < refreshGeneration

\* C13 (stale completion is a no-op): when a recompute call completes, with a
\* result, an error or an abort rejection, and its generation is not the
\* current one, sellData, error and priceRefreshing are left unchanged.
C13_StaleCompletionNoOp ==
  [][\A c \in calls : \A outcome \in Outcomes(c) :
       (c.gen # refreshGeneration /\ c \notin calls' /\ RecomputeSettles(c, outcome))
         => UNCHANGED <<sellData, error, priceRefreshing>>]_vars

\* the call of generation 2 answered after generation 3 had been scheduled
\* and was dropped, while generation 3 is still awaited
C13_Witness ==
  /\ 2 \in discarded
  /\ refreshGeneration = 3
  /\ priceRefreshing
  /\ sellData # NoData
  /\ sellData.gen = 1

\* C14 (recompute failures are silent): when the call of the current
\* generation fails, error is left as it was (nothing is reported), sellData
\* keeps the last result unchanged and priceRefreshing becomes FALSE.
C14_SilentRecomputeFailure ==
  [][\A c \in calls :
       (c.gen = refreshGeneration /\ c \notin calls' /\ RecomputeSettles(c, "error"))
         => /\ error' = error
            /\ sellData' = sellData
            /\ ~priceRefreshing']_vars

\* the recompute of generation 2 failed while current: the listing still
\* shows the result of generation 1, no error, indicator off
C14_Witness ==
  /\ refreshGeneration = 2
  /\ dispatched = 2
  /\ discarded = {}
  /\ calls = {}
  /\ timers = {}
  /\ submits = 1
  /\ PanelVisible
  /\ sellData.kind = "recompute"
  /\ sellData.gen = 1
  /\ error = NoError
  /\ ~priceRefreshing

\* C15 (supersession cancels prior work): after any step at most one debounce
\* timeout is pending and at most one recompute call whose controller has not
\* been aborted is in flight, every call older than the current generation
\* has been aborted, and the rejection of an aborted call leaves error as it
\* was.
C15_SupersessionCancels ==
  [][/\ Cardinality(timers') <= 1
     /\ Cardinality({c \in calls' : ~c.aborted}) <= 1
     /\ \A c \in calls' : c.gen # refreshGeneration' => c.aborted
     /\ \A t \in timers' : ~t.aborted /\ t.gen = refreshTimer'
     /\ \A c \in calls :
          (c.aborted /\ c \notin calls' /\ RecomputeSettles(c, "abort")) => error' = error]_vars

\* a superseded call, aborted and still unanswered, next to the pending
\* timeout of the generation that superseded it
C15_Witness ==
  /\ Cardinality(timers) = 1
  /\ \E c \in calls : c.aborted /\ c.gen = refreshGeneration - 1
  /\ error = NoError

\* C16 (schedule() without a base query is a no-op): as long as
\* currentSellQuery is empty, calls of refreshSellAdvisor leave the refreshing
\* indicator off, start no timeout, allocate no generation, abort and replace
\* no controller, and no recompute call is ever issued.
C16_NoBaseQueryNoOp ==
  currentSellQuery = NoQuery =>
    /\ ~priceRefreshing
    /\ timers = {}
    /\ refreshTimer = 0
    /\ refreshGeneration = 0
    /\ abortControllerRef = 0
    /\ calls = {}
    /\ dispatched = 0
    /\ scheduled = 0

\* refreshSellAdvisor has been called twice on a page without a base query
C16_Witness ==
  /\ currentSellQuery = NoQuery
  /\ clicks = 2

\* C17 (generation token authority): refreshGeneration equals the number of
\* schedule() calls that passed the base-query guard, so it never decreases
\* and grows by exactly one per such call and by nothing else; the tokens held
\* by pending timeouts and calls in flight are pairwise distinct, lie in
\* 1..refreshGeneration, and at most one of them is the current one.
C17_GenerationAuthority ==
  /\ refreshGeneration = scheduled
  /\ \A x \in timers \cup calls : x.gen \in 1..refreshGeneration
  /\ \A x, y \in timers \cup calls : x.gen = y.gen => x = y
  /\ Cardinality({x \in timers \cup calls : x.gen = refreshGeneration}) <= 1
  /\ (coalesced \cup discarded) \subseteq 1..(refreshGeneration - 1)

\* three schedule() calls so far; the calls of generations 2 and 3 are both
\* in flight and only the second is current
C17_Witness ==
  /\ scheduled = 3
  /\ refreshGeneration = 3
  /\ {c.gen : c \in calls} = {2, 3}

\* C18 (effective query construction): the fetch started by
\* handleRefinementSubmit(values) is made with the pending query followed by
\* the non-empty values in the order of the selection and nothing else (a
\* query is the sequence of its space-separated segments, so each appended
\* value is one more segment); when no value is non-empty the effective query
\* is the pending query itself. The search bar shows the same text.
C18_EffectiveQuery ==
  \A t \in searches : t.via = "clarify" =>
    LET RECURSIVE Appended(_, _)
        Appended(query, vals) ==
          IF vals = <<>> THEN query
          ELSE Appended(IF Head(vals) = "" THEN query ELSE Append(query, Head(vals)),
                        Tail(vals))
        chosen == [i \in DOMAIN t.refinementValues |-> t.refinementValues[i].v]
    IN  /\ t.fetch = Appended(t.query, chosen)
        /\ (\A i \in DOMAIN chosen : chosen[i] = "") => t.fetch = t.query
        /\ t.sid = submits => searchBarQuery = t.fetch

\* "iPhone" clarified with storage 128GB and colour black is fetched as
\* "iPhone 128GB black"
C18_Witness ==
  \E t \in searches :
    /\ t.via = "clarify"
    /\ t.query = <<"iPhone">>
    /\ t.refinementValues = <<[k |-> "storage", v |-> "128GB"], [k |-> "color", v |-> "black"]>>
    /\ t.fetch = <<"iPhone", "128GB", "black">>

\* C19 (sell primary fetch, pricing failure): when executeSearch resumes after
\* Promise.allSettled with the pricing call rejected, whether field inference
\* was fulfilled or rejected, it reports the pricing failure of that fetch as
\* the error with results shown, stores no sell result and no product fields,
\* and ends loading.
C19_PricingFailureFails ==
  [][\A t \in searches :
       (\/ (t.fld # "pending" /\ t \notin searches' /\ SellAdvisorSettles(t, FALSE))
        \/ (t.adv = "rejected" /\ t \notin searches' /\
              \E ok \in BOOLEAN, f \in FieldLists : ProductFieldsSettles(t, ok, f)))
       => /\ error' = Failure("sellAdvisor", t.sid)
          /\ showResults'
          /\ sellData' = sellData
          /\ productFields' = productFields
          /\ ~isLoading']_vars

\* a sell submission that failed on pricing: its error is shown, nothing is
\* stored and nothing is awaited any more
C19_Witness ==
  /\ mode = "sell"
  /\ error = Failure("sellAdvisor", submits)
  /\ showResults
  /\ sellData = NoData
  /\ productFields = <<>>
  /\ ~isLoading
  /\ searches = {}

C21_FatalErrorsFail ==
  [][\A t \in searches :
       (/\ t \notin searches'
        /\ \/ RefineFails(t)
           \/ AnalyzeSettles(t, FALSE)
           \/ (t.fld # "pending" /\ SellAdvisorSettles(t, FALSE))
           \/ (t.adv = "rejected" /\
                 \E ok \in BOOLEAN, f \in FieldLists : ProductFieldsSettles(t, ok, f)))
       => /\ error' # NoError
          /\ error'.sid = t.sid
          /\ showResults'
          /\ ~isLoading'
          /\ searches' = searches \ {t}
          /\ isLoading => /\ ~rafRef'
                          /\ progress' = Percent(100)
                          /\ completed'
                          /\ completionTimerRef']_vars

\* the refinement check of the only submission failed: error shown, nothing
\* awaited, the loader holding 100 until the grace timer fires
C21_Witness ==
  /\ error = Failure("refineQuery", submits)
  /\ submits = 1
  /\ ~isLoading
  /\ searches = {}
  /\ progress = Percent(100)
  /\ completionTimerRef

\* C22 (paused progress): whenever the loader is paused (loading with
\* refinement fields shown), the progress value is exactly the low ceiling 20.
C22_PausedAtLowCeiling ==
  IsPaused => progress = Percent(20)

\* C23 (progress bounded and monotonic): the progress value always lies in
\* [0, 100]; a step lowers it only to 0, and only when the loader starts
\* afresh (a start that found progress 0 or a completed cycle) or hides at the
\* end of the grace period.
C23_BoundedMonotonic ==
  [][/\ progress' \in 0..Percent(100)
     /\ progress' < progress =>
          /\ progress' = 0
          /\ \/ completed /\ ~completed' /\ ~visible'
             \/ completed /\ ~completed' /\ isLoading' /\ startTimeRef' = now]_vars

\* C24 (progress never finishes early): while a remote call of the submission
\* in force (not abandoned by a reset) is still outstanding, the progress
\* value is at most the high ceiling 92; 100 is shown only once that
\* submission's operation has finished.
C24_NeverFinishesEarly ==
  (activeSid # 0 /\ \E t \in searches : t.sid = activeSid)
    => progress <= Percent(92)

\* C25 (finalize): when loading ends the frame loop is stopped, the value is
\* set to 100 and the grace timer is armed; while the timer is pending the
\* value stays 100 and the loader stays visible; the loader is hidden only by
\* the timer's callback, which resets the value to 0, calls onComplete
\* (showResults) and leaves no timer pending, so it runs at most once per
\* finalize; a timer is armed only by a step in which loading ends.
C25_Finalize ==
  [][ /\ (isLoading /\ ~isLoading')
           => (~rafRef' /\ progress' = Percent(100) /\ completed'
               /\ visible' /\ completionTimerRef')
      /\ (completionTimerRef /\ ~isLoading')
           => \/ (completionTimerRef' /\ progress' = Percent(100) /\ visible'
                  /\ ~rafRef')
              \/ (~completionTimerRef' /\ ~visible' /\ progress' = 0
                  /\ ~completed' /\ showResults')
      /\ (visible /\ ~visible')
           => (completionTimerRef /\ ~completionTimerRef' /\ ~isLoading
               /\ progress = Percent(100) /\ progress' = 0 /\ showResults')
      /\ (~completionTimerRef /\ completionTimerRef')
           => (isLoading /\ ~isLoading' /\ wasLoadingRef)
      /\ (~isLoading /\ ~isLoading' /\ ~completionTimerRef)
           => (~completionTimerRef' /\ ~visible')
    ]_vars

\* a cycle that loaded with frames shown has been finalized, held at 100 and
\* then hidden by the callback, which displayed the results
C25_Witness ==
  /\ ~isLoading /\ ~completionTimerRef /\ ~visible /\ progress = 0
  /\ showResults /\ submits > 0 /\ now > 0
  /\ buyData.kind # "none"

\* C26 (simulator re-entrancy): at most one frame callback is scheduled at a
\* time, and it is the one rafRef holds; no grace timer is pending while
\* loading, so the completion callback of a finished cycle never runs inside
\* the cycle that follows it.
C26_SingleLoop ==
  /\ scheduledFrames <= 1
  /\ rafRef <=> scheduledFrames = 1
  /\ isLoading => ~completionTimerRef
  /\ rafRef => (isLoading /\ ~IsPaused)

\* a second cycle runs its frame loop after the first one was finalized and a
\* pause and a resume happened; the first cycle's callback never ran
C26_Witness ==
  /\ submits >= 2 /\ rafRef /\ scheduledFrames = 1 /\ progress > 0
  /\ ~completionTimerRef /\ ~showResults
  /\ \E t \in searches : t.via = "clarify"

\* C27 (resume continuity): the step that resumes a paused loader (loading
\* goes on, the refinement fields are gone) keeps the progress value and the
\* start timestamp, and while the resumed submission is running no frame
\* lowers the value, so what is shown after the resume is never below what
\* was shown during the pause.
C27_ResumeContinuity ==
  [][ /\ (IsPaused /\ isLoading' /\ Len(refinementFields') = 0)
           => (progress' = progress /\ startTimeRef' = startTimeRef)
      /\ (rafRef /\ rafRef' /\ \E t \in searches : t.via = "clarify")
           => progress' >= progress
    ]_vars

\* C28 (selections are not asked again): when the sell fetch started by a
\* clarification with at least one non-empty selection resumes with the
\* pricing call fulfilled, refinementSelections becomes the submitted
\* selections, every selection key is a key of sellDetails, and the detail
\* form shows no field whose key is a selection key up to letter case and
\* surrounding blanks.
C28_SelectionsNotAskedAgain ==
  [][\A t \in searches :
       LET selections == t.refinementValues
           SameKey(f, k) ==
             \/ f = k
             \/ (f \in {"storage", "Storage "} /\ k \in {"storage", "Storage "})
             \/ (f \in {"color", " Color"} /\ k \in {"color", " Color"})
       IN  (/\ t.via = "clarify" /\ t.stage = "sell" /\ t \notin searches'
            /\ \E i \in DOMAIN selections : selections[i].v # ""
            /\ \/ (t.fld # "pending" /\ SellAdvisorSettles(t, TRUE))
               \/ (t.adv = "fulfilled" /\
                     \E ok \in BOOLEAN, f \in InferredFieldLists :
                        ProductFieldsSettles(t, ok, f)))
           => /\ refinementSelections' = selections
              /\ MapKeys(selections) \subseteq MapKeys(sellDetails')
              /\ \A f \in VisibleFields', k \in MapKeys(selections) : ~SameKey(f, k)
              /\ \A i \in DOMAIN productFields' :
                   (\A k \in MapKeys(selections) : ~SameKey(productFields'[i], k))
                     => productFields'[i] \in VisibleFields']_vars

\* a sell listing after a clarification that chose the storage: the inferred
\* field "Storage " is not shown, the carrier field is
C28_Witness ==
  /\ mode = "sell" /\ sellData.kind = "primary" /\ ~isLoading /\ searches = {}
  /\ refinementSelections = <<[k |-> "storage", v |-> "128GB"]>>
  /\ Has(sellDetails, "storage")
  /\ productFields = <<"Storage ", "carrier">>
  /\ VisibleFields = {"carrier"}

\* C30 (the mode of a search is fixed at submission): the primary fetch of the
\* latest submission is the one of the mode that was current when submit was
\* called: analyzeProduct if it was buy, sellAdvisor with getProductFields if
\* it was sell.
C30_ModeFixedAtSubmit ==
  \A t \in searches :
    (t.sid = submits /\ t.stage \in {"buy", "sell"}) => t.stage = kept.mode

\* C29 (lifecycle termination): every submission that is loading eventually
\* stops loading with its outcome stored, a result (Completed) or an error
\* with results shown (Failed); and a stored result whose grace timer is
\* pending is eventually displayed, unless a new submit starts first.
C29_LifecycleTerminates ==
  /\ \A s \in 1..(MaxClicks + 1) :
       (submits = s /\ isLoading)
         ~> (/\ submits = s /\ ~isLoading
             /\ \/ (error.kind = "error" /\ error.sid = s /\ showResults)
                \/ (buyData.kind # "none" /\ buyData.sid = s)
                \/ (sellData.kind # "none" /\ sellData.sid = s))
  /\ (~isLoading /\ completionTimerRef /\ error.kind = "none")
       ~> ((showResults /\ ~completionTimerRef) \/ isLoading)

\* a submission that needed a clarification has completed and its result is
\* displayed after the grace period
C29_Witness ==
  /\ ~isLoading /\ ~completionTimerRef /\ showResults /\ searches = {}
  /\ error = NoError
  /\ buyData.kind # "none" /\ buyData.sid = submits
  /\ Len(buyData.query) > 1

\* C31 (no automatic retries, bounded fan-out): a submit issues exactly one
\* refinement check and nothing else issues one; a step starts at most one
\* primary fetch, a sell fetch with its pricing and field-inference calls both
\* pending; and while an error is shown no primary fetch and no recompute is
\* issued by a step that is not a user action.
C31_NoRetries ==
  [][ LET issuedChecks == {t \in searches' : t.stage = "refine"} \ searches
          issuedFetches ==
            {n \in searches' :
               /\ n.stage \in {"buy", "sell"}
               /\ \A t \in searches : t.tid = n.tid => t.stage = "refine"}
          issuedRecomputes == {c.gen : c \in calls'} \ {c.gen : c \in calls}
      IN  /\ (submits' # submits)
               => (Cardinality(issuedChecks) = 1 /\ issuedFetches = {})
          /\ (submits' = submits) => issuedChecks = {}
          /\ Cardinality(issuedFetches) <= 1
          /\ \A n \in issuedFetches :
               n.stage = "sell" => (n.adv = "pending" /\ n.fld = "pending")
          /\ (error.kind = "error" /\ clicks' = clicks)
               => (issuedFetches = {} /\ issuedRecomputes = {})
    ]_vars

\* C32 (submission guard): a step of the header's form handler or of an
\* example button happens only when no search is loading; what the form
\* handler passes on is not empty, has no white space at either end and is
\* the typed text without the white space around it; and every new submission
\* starts from a query that is not empty and has no white space at either end.
C32_SubmissionGuard ==
  [][ LET Blank(q) == \A i \in DOMAIN q : q[i] = " "
          Trimmed(q) == q # <<>> /\ Head(q) # " " /\ q[Len(q)] # " "
      IN  /\ \A typed \in TypedQueries :
                HandleSubmit(typed)
                  => /\ ~isLoading
                     /\ Trimmed(pendingQueryRef')
                     /\ \E i, j \in 0..Len(typed) :
                          /\ i <= j
                          /\ Blank(SubSeq(typed, 1, i))
                          /\ pendingQueryRef' = SubSeq(typed, i + 1, j)
                          /\ Blank(SubSeq(typed, j + 1, Len(typed)))
                     /\ \E t \in searches' \ searches :
                          t.stage = "refine" /\ t.query = pendingQueryRef'
          /\ \A s \in Suggestions :
                ExampleClick(s) => (~isLoading /\ pendingQueryRef' = s)
          /\ (submits' # submits) => (~isLoading /\ Trimmed(pendingQueryRef'))
    ]_vars

\* a second submission, typed with white space inside the text, is loading
\* and its refinement check is pending for the text as trimmed
C32_Witness ==
  /\ isLoading /\ submits = 2
  /\ pendingQueryRef = <<"MacBook", " ", "Pro">>
  /\ \E t \in searches : t.stage = "refine" /\ t.query = <<"MacBook", " ", "Pro">>

\* C33 (image analysis failure is local): a step in which uploadImage fails,
\* or in which a file that is not an image is handed to the widget, sets the
\* widget's own error (if the widget is still mounted) and nothing of the
\* page: the condition, the condition result, the attributes, the sell result,
\* the page error and the refreshing indicator are unchanged, and no recompute
\* is scheduled, dispatched or aborted.
C33_UploadFailureLocal ==
  [][ LET PageUntouched ==
            UNCHANGED <<sellCondition, conditionResult, sellDetails, detectedAttrs,
                        sellData, buyData, error, priceRefreshing, showResults,
                        isLoading, imageResult, timers, calls, refreshTimer,
                        refreshGeneration, abortControllerRef, scheduled,
                        dispatched>>
      IN  /\ \A u \in uploads :
               (u \notin uploads' /\ UploadFails(u))
                 => /\ PageUntouched
                    /\ imageError' = IF u.attached THEN "ANALYSIS FAILED" ELSE imageError
          /\ InvalidFile
               => /\ PageUntouched
                  /\ uploads' = uploads
                  /\ imageError' = "INVALID FILE FORMAT"
    ]_vars

\* a photo upload failed on a listing whose recompute is pending: the widget
\* shows the failure, the page shows the listing and no error
C33_Witness ==
  /\ imageError = "ANALYSIS FAILED"
  /\ PanelVisible /\ error = NoError /\ sellData.kind # "none"
  /\ uploads = {} /\ timers # {}

\* C34 (single-writer shared state): refreshGeneration changes only in a
\* step of schedule() that passed the base-query guard, and such a step is no
\* submit, clarification, reset or mode change; currentSellQuery changes only
\* in a step that starts a sell-mode primary fetch, to the query of that
\* fetch, and never in a step of schedule().
C34_SingleWriter ==
  [][ /\ (refreshGeneration' # refreshGeneration)
           => /\ refreshGeneration' = refreshGeneration + 1
              /\ scheduled' = scheduled + 1
              /\ UNCHANGED <<submits, searches, mode, activeSid, currentSellQuery>>
      /\ (scheduled' # scheduled) => UNCHANGED currentSellQuery
      /\ (currentSellQuery' # currentSellQuery)
           => \E n \in searches' \ searches :
                /\ n.stage = "sell" /\ n.adv = "pending" /\ n.fld = "pending"
                /\ n.fetch = currentSellQuery'
                /\ \A t \in searches : t.tid = n.tid => t.stage = "refine"
      /\ (submits' # submits \/ activeSid' # activeSid \/ mode' # mode
            \/ searches' # searches)
           => UNCHANGED refreshGeneration
    ]_vars

\* both have been written: a recompute generation was taken for the listing
\* and a later sell submission for another product replaced the base query
C34_Witness ==
  /\ refreshGeneration >= 2
  /\ submits >= 1
  /\ currentSellQuery = <<"MacBook">>
  /\ \E t \in searches : t.stage = "sell" /\ t.fetch = <<"MacBook">>

C36_IdleStable ==
  (activeSid = 0 /\ submits > 0) =>
    /\ buyData = NoData
    /\ sellData = NoData
    /\ error = NoError

\* C37 (refreshing eventually clears): once schedule() is no longer called and
\* every call that was issued gets its outcome, priceRefreshing becomes FALSE
\* and remains FALSE; and it never turns TRUE except in a step of schedule().
C37_RefreshingClears ==
  /\ <>[](~priceRefreshing)
  /\ [][(~priceRefreshing /\ priceRefreshing') => scheduled' = scheduled + 1]_vars

\* a burst has run out: three schedule() calls on the listed page, the first
\* two coalesced, the call of the last one answered, nothing pending and the indicator off
C37_Witness ==
  /\ scheduled = 4
  /\ refreshGeneration = 4
  /\ Cardinality(coalesced) = 2
  /\ timers = {}
  /\ calls = {}
  /\ ~priceRefreshing

\* C38 (Completed and Failed exclude each other): whenever the top-level error
\* is set, the buy result and the sell result are both empty.
C38_ErrorExcludesResult ==
  error # NoError => (buyData = NoData /\ sellData = NoData)

\* C39 (results are revealed only after finalization): no buy or sell result
\* is rendered while isLoading is TRUE, and a result that was not rendered
\* becomes rendered only in the step of ProgressLoader's completion callback,
\* which runs 700 ms after loading ended.
C39_RevealedByCallback ==
  /\ []((BuyVisible \/ PanelVisible) => ~isLoading)
  /\ [][(~(BuyVisible \/ PanelVisible) /\ (BuyVisible' \/ PanelVisible'))
          => (completionTimerRef /\ CompletionTimerFires)]_vars

\* C40 (clarification selections persist): in sell mode, while the selections
\* of a clarification are stored, the stored attribute set contains every one
\* of them, and so does the attribute map of every recompute scheduled since
\* that submit, pending or in flight.
C40_SelectionsPersist ==
  (mode = "sell" /\ refinementSelections # EmptyMap) =>
    /\ Carries(sellDetails, refinementSelections)
    /\ \A t \in timers \cup calls :
         t.sid = submits => Carries(t.details, refinementSelections)

====
